---- MODULE Spec2Model ----
(***************************************************************************)
(* Model of src/app.py: a Streamlit script that sends a product query to   *)
(* Elasticsearch with one of four retrieval strategies (bm25_search,       *)
(* vector_search, hybrid_rrf_search, full_pipeline_search), either one     *)
(* selected strategy or all four side by side (comparison mode).           *)
(*                                                                         *)
(* One behaviour of the model is a sequence of script runs.  A script run  *)
(* reads the widgets, passes the gate of line 197 or line 250 and then     *)
(* executes search calls; each search call suspends at model.encode and at *)
(* client.search, which are the points where the collaborators answer or   *)
(* fail.  An exception is caught nowhere in the script, so it ends the run.*)
(***************************************************************************)
EXTENDS Integers, Sequences, FiniteSets, TLC

\* ------------------------------------------------------------------ bounds
\* Longest query typed into the text input (characters).
MaxQueryLen == 1
\* Number of documents the index holds that match a query.
MaxDocs == 4

\* --------------------------------------------------------------- constants
\* st.sidebar.slider("Results", 3, 12, 5)
SliderMin == 3
SliderMax == 12
SliderDefault == 5
\* "num_candidates": 100 of the knn request
PoolCeiling == 100

INDEX_NAME == "amazon_2020_bbq"

\* Characters of a query: a blank and a letter.
Chars == {" ", "a"}

RECURSIVE SeqsUpTo(_, _)
SeqsUpTo(S, n) ==
    IF n = 0 THEN {<<>>}
    ELSE LET shorter == SeqsUpTo(S, n - 1)
         IN  shorter \cup {Append(q, c) : q \in {r \in shorter : Len(r) = n - 1}, c \in S}

Queries == SeqsUpTo(Chars, MaxQueryLen)

\* The options of the "Search Method" selectbox, in the order of the source.
Methods == <<"Full Pipeline", "Hybrid RRF", "Vector Semantic", "BM25 Keyword">>
MethodSet == {Methods[i] : i \in 1..Len(Methods)}
\* search_method = None in comparison mode.
None == "None"

\* The order of the four columns of the comparison block.
ComparisonOrder == <<"BM25 Keyword", "Vector Semantic", "Hybrid RRF", "Full Pipeline">>

\* ------------------------------------------------------ request builders
SourceFields == <<"product_name", "brand", "price", "category", "image_url">>

\* ["product_name^3", "brand^2", "category^1.5", "document_text"], boosts in
\* tenths; a field written without ^ carries no boost of its own.
BM25Fields ==
    << [name |-> "product_name", boost |-> 30],
       [name |-> "brand", boost |-> 20],
       [name |-> "category", boost |-> 15],
       [name |-> "document_text"] >>

\* Mutant: the hybrid request weighs brand like product_name.
HybridFields_Reweighted ==
    << [name |-> "product_name", boost |-> 30],
       [name |-> "brand", boost |-> 30],
       [name |-> "category", boost |-> 15],
       [name |-> "document_text"] >>

HybridFields ==
    << [name |-> "product_name", boost |-> 30],
       [name |-> "brand", boost |-> 20],
       [name |-> "category", boost |-> 15],
       [name |-> "document_text"] >>

PipelineFields ==
    << [name |-> "product_name", boost |-> 30],
       [name |-> "brand", boost |-> 20],
       [name |-> "category", boost |-> 15],
       [name |-> "document_text"] >>

\* model.encode(query).tolist(): the vector is a function of the text only.
Encode(query) == <<"vector", query>>

BM25Body(query, k) ==
    [ size |-> k,
      query |-> [multi_match |->
                    [query |-> query, fields |-> BM25Fields, type |-> "best_fields"]],
      source |-> SourceFields ]

\* Mutant: the candidate pool is the number of neighbours asked for.
VectorBody_PoolK(query, query_vector, k) ==
    [ size |-> k,
      knn |-> [field |-> "embedding", query_vector |-> query_vector,
               k |-> k, num_candidates |-> k],
      source |-> SourceFields ]

VectorBody(query, query_vector, k) ==
    [ size |-> k,
      knn |-> [field |-> "embedding", query_vector |-> query_vector,
               k |-> k, num_candidates |-> 100],
      source |-> SourceFields ]

HybridBody(query, query_vector, k) ==
    [ size |-> k,
      retriever |-> [rrf |->
          [ retrievers |->
              << [standard |-> [query |-> [multi_match |->
                      [query |-> query, fields |-> HybridFields]]]],
                 [knn |-> [field |-> "embedding", query_vector |-> query_vector,
                           k |-> 50, num_candidates |-> 100]] >>,
            rank_window_size |-> 100 ]],
      source |-> SourceFields ]

\* Mutant: the fusion window is 10, below the rerank window and below the
\* largest k of the slider.
FullPipelineBody_NarrowFusion(query, query_vector, k) ==
    [ size |-> k,
      retriever |-> [text_similarity_reranker |->
          [ retriever |-> [rrf |->
                [ retrievers |->
                    << [standard |-> [query |-> [multi_match |->
                            [query |-> query, fields |-> PipelineFields]]]],
                       [knn |-> [field |-> "embedding", query_vector |-> query_vector,
                                 k |-> 50, num_candidates |-> 100]] >>,
                  rank_window_size |-> 10 ]],
            field |-> "document_text",
            inference_id |-> "jina_reranker_v3",
            inference_text |-> query,
            rank_window_size |-> 50 ]],
      source |-> SourceFields ]

FullPipelineBody(query, query_vector, k) ==
    [ size |-> k,
      retriever |-> [text_similarity_reranker |->
          [ retriever |-> [rrf |->
                [ retrievers |->
                    << [standard |-> [query |-> [multi_match |->
                            [query |-> query, fields |-> PipelineFields]]]],
                       [knn |-> [field |-> "embedding", query_vector |-> query_vector,
                                 k |-> 50, num_candidates |-> 100]] >>,
                  rank_window_size |-> 100 ]],
            field |-> "document_text",
            inference_id |-> "jina_reranker_v3",
            inference_text |-> query,
            rank_window_size |-> 50 ]],
      source |-> SourceFields ]

\* Mutant: bm25_search encodes the query too.
NeedsEmbedding_Always(method) == TRUE

\* Which search functions call model.encode before client.search.
NeedsEmbedding(method) == method \in {"Vector Semantic", "Hybrid RRF", "Full Pipeline"}

\* The body each search function hands to client.search.
BodyOf(method, q, k) ==
    CASE method = "BM25 Keyword"    -> BM25Body(q, k)
      [] method = "Vector Semantic" -> VectorBody(q, Encode(q), k)
      [] method = "Hybrid RRF"      -> HybridBody(q, Encode(q), k)
      [] method = "Full Pipeline"   -> FullPipelineBody(q, Encode(q), k)

\* Mutant: the hits are sorted by document id before they are returned.
ReturnedHits_Resorted(response) ==
    LET h == response.hits.hits
    IN  [i \in 1..Len(h) |-> h[Len(h) + 1 - i]]

\* return response["hits"]["hits"]
ReturnedHits(response) == response.hits.hits

\* ----------------------------------------------------------- collaborators
\* What the index answers to a request: its best n documents, n no larger
\* than the request's size, best first (document MaxDocs is the best match).
BackendHits(n) == [i \in 1..n |-> MaxDocs + 1 - i]

Min(a, b) == IF a < b THEN a ELSE b

\* ------------------------------------------------------------------- state
VARIABLES
    comparison_mode,  \* the "Compare All Methods" checkbox
    search_method,    \* the selectbox, None in comparison mode
    query,            \* the text input
    num_results,      \* the slider
    pc,               \* where the script run is
    cur,              \* the search function being executed
    log,              \* the outbound calls of this run, in order
    start,            \* start = time.time(), as the number of calls made so far
    span,             \* per method: the calls made between its two clock reads
    response,         \* per method: what client.search returned
    res,              \* per method: what the search function returned
    returned,         \* the methods whose call returned
    raised            \* the exception that ended the run, if any

vars == <<comparison_mode, search_method, query, num_results, pc, cur, log,
          start, span, response, res, returned, raised>>

NoException == [by |-> None, error |-> None]
NoResponse == [hits |-> [hits |-> <<>>]]

FreshRun ==
    /\ log' = <<>>
    /\ start' = 0
    /\ span' = [m \in MethodSet |-> <<0, 0>>]
    /\ response' = [m \in MethodSet |-> NoResponse]
    /\ res' = [m \in MethodSet |-> <<>>]
    /\ returned' = {}
    /\ raised' = NoException

\* The first run of the script: every widget at its default, empty query.
Init ==
    /\ comparison_mode = FALSE
    /\ search_method = Methods[1]
    /\ query = <<>>
    /\ num_results = SliderDefault
    /\ pc = "done"
    /\ cur = None
    /\ log = <<>>
    /\ start = 0
    /\ span = [m \in MethodSet |-> <<0, 0>>]
    /\ response = [m \in MethodSet |-> NoResponse]
    /\ res = [m \in MethodSet |-> <<>>]
    /\ returned = {}
    /\ raised = NoException

\* The script from its top down to the first search call, or to its end when
\* neither gate (line 197, line 250) is passed.
RunScript(cm, sm, q, k) ==
    /\ comparison_mode' = cm
    /\ search_method' = sm
    /\ query' = q
    /\ num_results' = k
    /\ IF cm /\ q # <<>>
         THEN pc' = "call" /\ cur' = ComparisonOrder[1]
         ELSE IF ~cm /\ q # <<>> /\ sm # None
                THEN pc' = "call" /\ cur' = sm
                ELSE pc' = "done" /\ cur' = None
    /\ FreshRun

\* The user ticks or unticks "Compare All Methods": the selectbox is built
\* only when it is unticked, and then shows its first option.
ToggleComparison ==
    /\ pc \in {"done", "aborted"}
    /\ RunScript(~comparison_mode,
                 IF comparison_mode THEN Methods[1] ELSE None,
                 query, num_results)

\* The user picks a search method (the selectbox exists outside comparison
\* mode only).
SelectMethod ==
    /\ pc \in {"done", "aborted"}
    /\ ~comparison_mode
    /\ \E sm \in MethodSet : RunScript(comparison_mode, sm, query, num_results)

\* The user moves the "Results" slider.
MoveSlider ==
    /\ pc \in {"done", "aborted"}
    /\ \E k \in SliderMin..SliderMax :
          RunScript(comparison_mode, search_method, query, k)

\* The user submits the text input.
TypeQuery ==
    /\ pc \in {"done", "aborted"}
    /\ \E q \in Queries : RunScript(comparison_mode, search_method, q, num_results)

EmbedCall(method, q) ==
    [by |-> method, to |-> "embedding", status |-> "pending", text |-> q]

BackendCall(method, q, k) ==
    [by |-> method, to |-> "backend", status |-> "pending",
     index |-> INDEX_NAME, body |-> BodyOf(method, q, k)]

Settle(calls, i, outcome) == [calls EXCEPT ![i].status = outcome]

\* start = time.time(); then the search function is entered and makes its
\* first outbound call.
BeginCall ==
    /\ pc = "call"
    /\ start' = Len(log)
    /\ IF NeedsEmbedding(cur)
         THEN /\ log' = Append(log, EmbedCall(cur, query))
              /\ pc' = "encode"
         ELSE /\ log' = Append(log, BackendCall(cur, query, num_results))
              /\ pc' = "search"
    /\ UNCHANGED <<comparison_mode, search_method, query, num_results, cur,
                   span, response, res, returned, raised>>

\* model.encode returns the vector; client.search is called with it.
EncodeReturn ==
    /\ pc = "encode"
    /\ log' = Append(Settle(log, Len(log), "ok"), BackendCall(cur, query, num_results))
    /\ pc' = "search"
    /\ UNCHANGED <<comparison_mode, search_method, query, num_results, cur,
                   start, span, response, res, returned, raised>>

\* model.encode raises; nothing catches it.
EncodeFail ==
    /\ pc = "encode"
    /\ log' = Settle(log, Len(log), "failed")
    /\ raised' = [by |-> cur, error |-> "EmbeddingError"]
    /\ pc' = "aborted"
    /\ UNCHANGED <<comparison_mode, search_method, query, num_results, cur,
                   start, span, response, res, returned>>

\* The method called after m in the comparison block, None after the last.
NextMethod(m) ==
    LET i == CHOOSE j \in 1..Len(ComparisonOrder) : ComparisonOrder[j] = m
    IN  IF i < Len(ComparisonOrder) THEN ComparisonOrder[i + 1] ELSE None

\* client.search answers; the function returns the hits, the caller reads
\* the clock again and goes on to the next column, or to the end.
SearchReturn ==
    /\ pc = "search"
    /\ \E n \in 0..Min(log[Len(log)].body.size, MaxDocs) :
        LET answer == [hits |-> [hits |-> BackendHits(n)]]
        IN  /\ response' = [response EXCEPT ![cur] = answer]
            /\ res' = [res EXCEPT ![cur] = ReturnedHits(answer)]
    /\ log' = Settle(log, Len(log), "ok")
    /\ returned' = returned \cup {cur}
    /\ span' = [span EXCEPT ![cur] = <<start, Len(log)>>]
    /\ IF comparison_mode /\ NextMethod(cur) # None
         THEN pc' = "call" /\ cur' = NextMethod(cur)
         ELSE pc' = "done" /\ cur' = cur
    /\ UNCHANGED <<comparison_mode, search_method, query, num_results, start, raised>>

\* Mutant: the failure of client.search is caught and an empty list returned.
SearchFail_Swallowed ==
    /\ pc = "search"
    /\ log' = Settle(log, Len(log), "failed")
    /\ res' = [res EXCEPT ![cur] = <<>>]
    /\ returned' = returned \cup {cur}
    /\ span' = [span EXCEPT ![cur] = <<start, Len(log)>>]
    /\ IF comparison_mode /\ NextMethod(cur) # None
         THEN pc' = "call" /\ cur' = NextMethod(cur)
         ELSE pc' = "done" /\ cur' = cur
    /\ UNCHANGED <<comparison_mode, search_method, query, num_results, start,
                   response, raised>>

\* client.search raises (connection error, timeout reported by the client,
\* error status) or its answer has no ["hits"]["hits"]; nothing catches it.
SearchFail ==
    /\ pc = "search"
    /\ log' = Settle(log, Len(log), "failed")
    /\ \E e \in {"BackendError", "KeyError"} : raised' = [by |-> cur, error |-> e]
    /\ pc' = "aborted"
    /\ UNCHANGED <<comparison_mode, search_method, query, num_results, cur,
                   start, span, response, res, returned>>

Next ==
    \/ ToggleComparison
    \/ SelectMethod
    \/ MoveSlider
    \/ TypeQuery
    \/ BeginCall
    \/ EncodeReturn
    \/ EncodeFail
    \/ SearchReturn
    \/ SearchFail

Spec == Init /\ [][Next]_vars

TypeOK ==
    /\ comparison_mode \in BOOLEAN
    /\ search_method \in MethodSet \cup {None}
    /\ query \in Queries
    /\ num_results \in SliderMin..SliderMax
    /\ pc \in {"call", "encode", "search", "done", "aborted"}
    /\ cur \in MethodSet \cup {None}
    /\ returned \subseteq MethodSet

\* ------------------------------------------------- reading the call log
RunEnded == pc \in {"done", "aborted"}

\* A search function has been entered in this run.
SearchEntered == cur # None

EmbedCalls(m) == {i \in DOMAIN log : log[i].to = "embedding" /\ log[i].by = m}
BackendCalls(m) == {i \in DOMAIN log : log[i].to = "backend" /\ log[i].by = m}
InFlight == {i \in DOMAIN log : log[i].status = "pending"}
Failed == {i \in DOMAIN log : log[i].status = "failed"}

\* The four request shapes of the Retrieval Backend.
ShapeOf(body) ==
    IF "query" \in DOMAIN body THEN "lexical"
    ELSE IF "knn" \in DOMAIN body THEN "vector"
    ELSE IF "rrf" \in DOMAIN body.retriever THEN "fused"
    ELSE "reranked"

ShapeFor(method) ==
    CASE method = "BM25 Keyword"    -> "lexical"
      [] method = "Vector Semantic" -> "vector"
      [] method = "Hybrid RRF"      -> "fused"
      [] method = "Full Pipeline"   -> "reranked"

\* The rrf retriever of a fused or reranked request.
FusedRetriever(body) ==
    IF ShapeOf(body) = "fused" THEN body.retriever
    ELSE body.retriever.text_similarity_reranker.retriever

\* The multi_match of a request that scores lexically.
LexicalPart(body) ==
    IF ShapeOf(body) = "lexical" THEN body.query.multi_match
    ELSE FusedRetriever(body).rrf.retrievers[1].standard.query.multi_match

\* Elasticsearch scores a field written without ^ with boost 1 and combines
\* the fields of a multi_match written without "type" as best_fields.
Boost(f) == IF "boost" \in DOMAIN f THEN f.boost ELSE 10
CombinationMode(mm) == IF "type" \in DOMAIN mm THEN mm.type ELSE "best_fields"

BoostsDescend(fields) ==
    /\ [i \in DOMAIN fields |-> fields[i].name]
         = <<"product_name", "brand", "category", "document_text">>
    /\ \A i \in 1..(Len(fields) - 1) : Boost(fields[i]) > Boost(fields[i + 1])

SameLexical(a, b) ==
    /\ a.query = b.query
    /\ a.fields = b.fields
    /\ [i \in DOMAIN a.fields |-> Boost(a.fields[i])]
         = [i \in DOMAIN b.fields |-> Boost(b.fields[i])]
    /\ CombinationMode(a) = CombinationMode(b)

\* str.strip() of a query.
RECURSIVE TrimLeft(_)
TrimLeft(q) == IF q # <<>> /\ Head(q) = " " THEN TrimLeft(Tail(q)) ELSE q
RECURSIVE TrimRight(_)
TrimRight(q) ==
    IF q # <<>> /\ q[Len(q)] = " " THEN TrimRight(SubSeq(q, 1, Len(q) - 1)) ELSE q
Trim(q) == TrimRight(TrimLeft(q))

\* ------------------------------------------------------------------ claims

\* C1: in comparison mode, when one strategy's call fails, the other three
\* strategies still return results and the failed one is marked; a failure
\* never prevents the strategies after it from being invoked.
C1_ComparisonSurvivesOneFailure ==
    (comparison_mode /\ RunEnded /\ Failed # {}) =>
        /\ raised.by \in MethodSet
        /\ \A m \in MethodSet \ {raised.by} : m \in returned

\* C2: a Search with a query that is empty after trimming, with k = 0 or with
\* k above the maximum sends no request to the Embedding Provider or the
\* Retrieval Backend and ends in InvalidRequest.
C2_InvalidRequestRejected ==
    (SearchEntered /\ (Trim(query) = <<>> \/ num_results = 0 \/ num_results > SliderMax)) =>
        /\ log = <<>>
        /\ RunEnded => raised.error = "InvalidRequest"

\* C3: the list a successful search returns has at most k hits and is the
\* list the backend returned, in the backend's order, for a request of size k.
C3_AtMostKInBackendOrder ==
    \A m \in returned :
        /\ Len(res[m]) <= num_results
        /\ res[m] = response[m].hits.hits
        /\ \A i \in BackendCalls(m) : log[i].body.size = num_results

C3_Witness ==
    \E m \in returned : Len(res[m]) = num_results /\ num_results < MaxDocs

\* C4: the Vector request asks for k neighbours out of a candidate pool that
\* is larger than k, at least min(10 k, ceiling) and at most the ceiling.
C4_VectorPoolExceedsK ==
    \A i \in BackendCalls("Vector Semantic") :
        LET knn == log[i].body.knn
        IN  /\ knn.k = num_results
            /\ num_results > 0
            /\ knn.num_candidates > num_results
            /\ knn.num_candidates >= Min(10 * num_results, PoolCeiling)
            /\ knn.num_candidates <= PoolCeiling

C4_Witness ==
    \E i \in BackendCalls("Vector Semantic") :
        num_results = 5 /\ log[i].body.knn.num_candidates >= 50

\* C5: the fusion window of the HybridFused and FullPipeline requests is at
\* least k, and the rerank window of the FullPipeline request is at most the
\* fusion window under it.
C5_WindowsOrdered ==
    /\ \A i \in BackendCalls("Hybrid RRF") :
          log[i].body.retriever.rrf.rank_window_size >= log[i].body.size
    /\ \A i \in BackendCalls("Full Pipeline") :
          LET reranker == log[i].body.retriever.text_similarity_reranker
          IN  /\ reranker.retriever.rrf.rank_window_size >= log[i].body.size
              /\ reranker.rank_window_size <= reranker.retriever.rrf.rank_window_size
              /\ log[i].body.size = num_results
    /\ \A i \in BackendCalls("Hybrid RRF") : log[i].body.size = num_results

C5_Witness ==
    /\ num_results = SliderMax
    /\ BackendCalls("Hybrid RRF") # {}
    /\ BackendCalls("Full Pipeline") # {}

\* C6: a comparison run calls every strategy exactly once, in the order
\* Lexical, Vector, HybridFused, FullPipeline, and the calls made between a
\* strategy's two clock reads are that strategy's own calls only.
C6_EachStrategyOnceInOrder ==
    (comparison_mode /\ SearchEntered /\ RunEnded) =>
        /\ \A m \in MethodSet : Cardinality(BackendCalls(m)) = 1
        /\ \A a, b \in 1..Len(ComparisonOrder) :
              a < b => \A i \in BackendCalls(ComparisonOrder[a]),
                          j \in BackendCalls(ComparisonOrder[b]) : i < j
        /\ \A m \in returned :
              \A i \in (span[m][1] + 1)..span[m][2] : log[i].by = m

\* C7: a search whose embedding or backend call failed ends in failure for
\* that strategy, returns no result list for it, sends nothing after the
\* failure, and every request sent has the shape of the strategy that sent it.
C7_FailureIsFailure ==
    /\ \A i \in Failed :
          /\ pc = "aborted"
          /\ raised.by = log[i].by
          /\ raised.error \in {"EmbeddingError", "BackendError", "KeyError"}
          /\ log[i].by \notin returned
          /\ i = Len(log)
    /\ \A i \in DOMAIN log :
          /\ log[i].to = "backend" => ShapeOf(log[i].body) = ShapeFor(log[i].by)
          /\ ~comparison_mode => log[i].by = search_method

C7_Witness ==
    \E i \in Failed :
        /\ ~comparison_mode
        /\ log[i].by = "Vector Semantic"
        /\ log[i].to = "backend"
        /\ BackendCalls("BM25 Keyword") = {}

\* C9: a Vector, HybridFused or FullPipeline search makes one embedding call,
\* which has answered before its one backend request is sent; a Lexical
\* search makes no embedding call; at most one outbound call is in flight.
C9_EmbedThenSearch ==
    /\ Cardinality(InFlight) <= 1
    /\ EmbedCalls("BM25 Keyword") = {}
    /\ \A m \in MethodSet :
          /\ Cardinality(EmbedCalls(m)) <= 1
          /\ Cardinality(BackendCalls(m)) <= 1
          /\ m \in returned => Cardinality(BackendCalls(m)) = 1
          /\ m \in {"Vector Semantic", "Hybrid RRF", "Full Pipeline"} =>
                \A j \in BackendCalls(m) :
                    /\ Cardinality(EmbedCalls(m)) = 1
                    /\ \A i \in EmbedCalls(m) :
                          /\ i < j
                          /\ log[i].status = "ok"
                          /\ log[i].text = query
                          /\ LET body == log[j].body
                             IN  Encode(log[i].text) =
                                   IF ShapeOf(body) = "vector"
                                     THEN body.knn.query_vector
                                     ELSE FusedRetriever(body).rrf.retrievers[2].knn.query_vector

C9_Witness ==
    /\ ~comparison_mode
    /\ "Hybrid RRF" \in returned
    /\ Len(log) = 2

\* C10: the lexical sub-request of the HybridFused and FullPipeline requests
\* has the fields, boosts (product_name > brand > category > free text) and
\* field-combination mode of the Lexical request for the same query, and the
\* fused retriever inside the FullPipeline request is the retriever of the
\* HybridFused request.
C10_SameLexicalEverywhere ==
    /\ \A i \in DOMAIN log :
          (log[i].to = "backend" /\ ShapeOf(log[i].body) # "vector") =>
              /\ BoostsDescend(LexicalPart(log[i].body).fields)
              /\ LexicalPart(log[i].body).query = query
    /\ \A i \in BackendCalls("BM25 Keyword") :
          \A j \in BackendCalls("Hybrid RRF") \cup BackendCalls("Full Pipeline") :
              SameLexical(LexicalPart(log[i].body), LexicalPart(log[j].body))
    /\ \A i \in BackendCalls("Hybrid RRF") :
          \A j \in BackendCalls("Full Pipeline") :
              FusedRetriever(log[j].body) = FusedRetriever(log[i].body)

C10_Witness ==
    /\ comparison_mode
    /\ returned = MethodSet
====
